---- MODULE Spec2Model ----
(***************************************************************************)
(* Model of the roundcube-mcp send_email tool: app/server.py               *)
(* (handle_send_email) and app/email_service.py (load_config, the address  *)
(* validator, send_email_smtp, save_to_sent_folder).                       *)
(*                                                                         *)
(* Text is a sequence of string chunks.  Text that the code parses (the    *)
(* `to`/`cc` arguments, the subject, port variables) is written one        *)
(* character per chunk, so that split, strip, the address pattern and      *)
(* int() are computed character by character.                              *)
(* An optional value is <<>> (absent) or <<v>> (present).                  *)
(***************************************************************************)
EXTENDS Integers, Sequences, FiniteSets, TLC

\* ------------------------------------------------------------------------
\* Character classes of EMAIL_PATTERN and of str.strip / str.split
\* ------------------------------------------------------------------------
Whitespace == {" "}

AlnumChars == {"a", "b", "c", "d", "x", "S", "1"}

AtextSpecial == {"+", "_", "-"}

Digits == {"0", "1", "2", "3", "4", "5", "6", "7", "8", "9"}

\* str.strip(): drop leading and trailing whitespace
Strip(s) ==
    IF \A i \in 1..Len(s) : s[i] \in Whitespace
    THEN <<>>
    ELSE LET lo == CHOOSE i \in 1..Len(s) :
                       /\ s[i] \notin Whitespace
                       /\ \A j \in 1..(i-1) : s[j] \in Whitespace
             hi == CHOOSE i \in 1..Len(s) :
                       /\ s[i] \notin Whitespace
                       /\ \A j \in (i+1)..Len(s) : s[j] \in Whitespace
         IN SubSeq(s, lo, hi)

RECURSIVE Split(_, _)
\* str.split(sep): "".split(",") is [""], "a,".split(",") is ["a", ""]
Split(s, sep) ==
    IF \A i \in 1..Len(s) : s[i] # sep
    THEN <<s>>
    ELSE LET k == CHOOSE i \in 1..Len(s) :
                      s[i] = sep /\ \A j \in 1..(i-1) : s[j] # sep
         IN <<SubSeq(s, 1, k-1)>> \o Split(SubSeq(s, k+1, Len(s)), sep)

RECURSIVE Join(_, _)
\* sep.join(list)
Join(list, sep) ==
    IF list = <<>> THEN <<>>
    ELSE IF Len(list) = 1 THEN list[1]
    ELSE list[1] \o sep \o Join(Tail(list), sep)

\* one atom-run of the local part: atoms separated by single dots
LocalPartOk(s) ==
    /\ s # <<>>
    /\ \A i \in 1..Len(s) : s[i] \in AlnumChars \cup AtextSpecial \cup {"."}
    /\ s[1] # "."
    /\ s[Len(s)] # "."
    /\ \A i \in 1..(Len(s)-1) : ~(s[i] = "." /\ s[i+1] = ".")

\* [a-zA-Z0-9](?:[a-zA-Z0-9-]*[a-zA-Z0-9])?
LabelOk(l) ==
    /\ l # <<>>
    /\ \A i \in 1..Len(l) : l[i] \in AlnumChars \cup {"-"}
    /\ l[1] \in AlnumChars
    /\ l[Len(l)] \in AlnumChars

\* (?:label\.)+label
DomainOk(s) ==
    LET labels == Split(s, ".")
    IN /\ Len(labels) >= 2
       /\ \A i \in 1..Len(labels) : LabelOk(labels[i])

\* EMAIL_PATTERN.match, anchored at both ends
EMAIL_PATTERN(s) ==
    \E k \in 1..Len(s) :
        /\ s[k] = "@"
        /\ LocalPartOk(SubSeq(s, 1, k-1))
        /\ DomainOk(SubSeq(s, k+1, Len(s)))

is_valid_email(email) == EMAIL_PATTERN(Strip(email))

RECURSIVE DropEmpty(_)
DropEmpty(list) ==
    IF list = <<>> THEN <<>>
    ELSE IF Strip(Head(list)) = <<>> THEN DropEmpty(Tail(list))
    ELSE <<Strip(Head(list))>> \o DropEmpty(Tail(list))

parse_email_list(emails) == DropEmpty(Split(emails, ","))

\* ------------------------------------------------------------------------
\* Exceptions: a class name and the text of str(e)
\* ------------------------------------------------------------------------
NoExc == [cls |-> "none", arg |-> <<>>]

Exc(c, a) == [cls |-> c, arg |-> a]

\* the direct base class of every exception class the model raises
Parent ==
    [c \in {"Exception", "OSError", "ValueError", "LookupError", "KeyError",
            "FileNotFoundError", "JSONDecodeError", "UnicodeError",
            "UnicodeEncodeError", "ConnectionRefusedError", "gaierror",
            "TimeoutError", "SSLError", "SMTPException",
            "SMTPServerDisconnected", "SMTPResponseException",
            "SMTPConnectError", "SMTPAuthenticationError",
            "SMTPRecipientsRefused", "SMTPNotSupportedError",
            "IMAP4.error", "IMAP4.abort"} |->
        CASE c = "Exception" -> "BaseException"
          [] c = "OSError" -> "Exception"
          [] c = "ValueError" -> "Exception"
          [] c = "LookupError" -> "Exception"
          [] c = "KeyError" -> "LookupError"
          [] c = "FileNotFoundError" -> "OSError"
          [] c = "JSONDecodeError" -> "ValueError"
          [] c = "UnicodeError" -> "ValueError"
          [] c = "UnicodeEncodeError" -> "UnicodeError"
          [] c = "ConnectionRefusedError" -> "OSError"
          [] c = "gaierror" -> "OSError"
          [] c = "TimeoutError" -> "OSError"
          [] c = "SSLError" -> "OSError"
          [] c = "SMTPException" -> "OSError"
          [] c = "SMTPServerDisconnected" -> "SMTPException"
          [] c = "SMTPResponseException" -> "SMTPException"
          [] c = "SMTPConnectError" -> "SMTPResponseException"
          [] c = "SMTPAuthenticationError" -> "SMTPResponseException"
          [] c = "SMTPRecipientsRefused" -> "SMTPException"
          [] c = "SMTPNotSupportedError" -> "SMTPException"
          [] c = "IMAP4.error" -> "Exception"
          [] c = "IMAP4.abort" -> "IMAP4.error"]

RECURSIVE IsSubclass(_, _)
IsSubclass(c, d) ==
    IF c = d THEN TRUE
    ELSE IF c \notin DOMAIN Parent THEN FALSE
    ELSE IsSubclass(Parent[c], d)

validate_emails(emails) ==
    IF \A i \in 1..Len(emails) : is_valid_email(emails[i])
    THEN NoExc
    ELSE LET k == CHOOSE i \in 1..Len(emails) :
                      /\ ~is_valid_email(emails[i])
                      /\ \A j \in 1..(i-1) : is_valid_email(emails[j])
         IN Exc("ValueError",
                <<"'">> \o emails[k] \o <<"'", " is not a valid email address">>)

\* ------------------------------------------------------------------------
\* Configuration (load_config)
\* ------------------------------------------------------------------------
DefaultImapPort == 993

\* optional values
Get(opt, default) == IF opt = <<>> THEN default ELSE opt[1]

\* str.lower() on the flag texts the environments use
Lower(s) ==
    CASE s = "TRUE" -> "true"
      [] s = "True" -> "true"
      [] s = "FALSE" -> "false"
      [] OTHER -> s

DigitVal(ch) ==
    CASE ch = "0" -> 0 [] ch = "1" -> 1 [] ch = "2" -> 2 [] ch = "3" -> 3
      [] ch = "4" -> 4 [] ch = "5" -> 5 [] ch = "6" -> 6 [] ch = "7" -> 7
      [] ch = "8" -> 8 [] ch = "9" -> 9

RECURSIVE DecimalValue(_)
DecimalValue(s) ==
    IF s = <<>> THEN 0
    ELSE 10 * DecimalValue(SubSeq(s, 1, Len(s)-1)) + DigitVal(s[Len(s)])

\* int(text): the value, or ValueError for text that is not a decimal numeral
ParseInt(s) ==
    LET t == Strip(s)
    IN IF t # <<>> /\ \A i \in 1..Len(t) : t[i] \in Digits
       THEN [exc |-> NoExc, val |-> DecimalValue(t)]
       ELSE [exc |-> Exc("ValueError",
                         <<"invalid literal for int() with base 10: ", "'">>
                             \o s \o <<"'">>),
             val |-> 0]

NoConfig ==
    [smtp_host |-> <<>>, smtp_port |-> <<>>, smtp_use_tls |-> <<>>,
     username |-> <<>>, password |-> <<>>, imap_host |-> <<>>,
     imap_port |-> <<>>, save_to_sent |-> <<>>, sent_folder |-> <<>>]

required_fields == <<"smtp_host", "smtp_port", "smtp_use_tls", "username", "password">>

FieldOf(c, f) ==
    CASE f = "smtp_host" -> c.smtp_host
      [] f = "smtp_port" -> c.smtp_port
      [] f = "smtp_use_tls" -> c.smtp_use_tls
      [] f = "username" -> c.username
      [] f = "password" -> c.password

\* os.environ.get(name) is truthy: set and not the empty string
EnvTruthy(opt) == opt # <<>> /\ opt[1] # ""

EnvConfig(env) ==
    LET sp == ParseInt(Get(env.SMTP_PORT, <<"4", "6", "5">>))
        ip == ParseInt(Get(env.IMAP_PORT, <<"9", "9", "3">>))
    IN IF sp.exc # NoExc THEN [exc |-> sp.exc, config |-> NoConfig]
       ELSE IF ip.exc # NoExc THEN [exc |-> ip.exc, config |-> NoConfig]
       ELSE [exc |-> NoExc,
             config |->
               [smtp_host |-> <<env.SMTP_HOST[1]>>,
                smtp_port |-> <<sp.val>>,
                smtp_use_tls |-> <<Lower(Get(env.SMTP_USE_TLS, "false")) = "true">>,
                username |-> <<env.SMTP_USERNAME[1]>>,
                password |-> <<Get(env.SMTP_PASSWORD, "")>>,
                imap_host |-> <<Get(env.IMAP_HOST, env.SMTP_HOST[1])>>,
                imap_port |-> <<ip.val>>,
                save_to_sent |-> <<Lower(Get(env.SAVE_TO_SENT, "true")) = "true">>,
                sent_folder |-> <<Get(env.SENT_FOLDER, "Sent")>>]]

FileConfig(f) ==
    IF f.state = "missing"
    THEN [exc |-> Exc("FileNotFoundError",
                      <<"config.json not found at ", "app/../config.json",
                        " and environment variables not set. ">>),
          config |-> NoConfig]
    ELSE IF f.state = "malformed"
    THEN [exc |-> Exc("JSONDecodeError", <<"Expecting value: line 1 column 1 (char 0)">>),
          config |-> NoConfig]
    ELSE IF \E i \in 1..Len(required_fields) : FieldOf(f.json, required_fields[i]) = <<>>
    THEN LET k == CHOOSE i \in 1..Len(required_fields) :
                      /\ FieldOf(f.json, required_fields[i]) = <<>>
                      /\ \A j \in 1..(i-1) : FieldOf(f.json, required_fields[j]) # <<>>
         IN [exc |-> Exc("KeyError",
                         <<"'", "Missing required field: ", required_fields[k], "'">>),
             config |-> NoConfig]
    ELSE [exc |-> NoExc, config |-> f.json]

load_config(env, f) ==
    IF EnvTruthy(env.SMTP_HOST) /\ EnvTruthy(env.SMTP_USERNAME)
    THEN EnvConfig(env)
    ELSE FileConfig(f)

\* ------------------------------------------------------------------------
\* handle_send_email: the except clauses, in order, and the text of each
\* ------------------------------------------------------------------------
\* variant: no final `except Exception`
ExceptClausesNoCatchAll ==
    <<"FileNotFoundError", "JSONDecodeError", "KeyError", "ValueError",
      "SMTPAuthenticationError", "SMTPConnectError", "SMTPException">>

ExceptClauses ==
    <<"FileNotFoundError", "JSONDecodeError", "KeyError", "ValueError",
      "SMTPAuthenticationError", "SMTPConnectError", "SMTPException", "Exception">>

NoResult == [raised |-> FALSE, text |-> <<>>]

ErrorText(clause, e) ==
    CASE clause = "FileNotFoundError" -> <<"Error: ">> \o e.arg
      [] clause = "JSONDecodeError" -> <<"Error: ", "Invalid JSON in config.json: ">> \o e.arg
      [] clause = "KeyError" -> <<"Error: ">> \o e.arg
      [] clause = "ValueError" -> <<"Error: ", "Invalid email address - ">> \o e.arg
      [] clause = "SMTPAuthenticationError" ->
            <<"Error: ", "SMTP authentication failed. Check username/password in config.json">>
      [] clause = "SMTPConnectError" -> <<"Error: ", "Could not connect to SMTP server: ">> \o e.arg
      [] clause = "SMTPException" -> <<"Error: ", "SMTP error: ">> \o e.arg
      [] clause = "Exception" -> <<"Error: ", "Unexpected error: ">> \o e.arg

\* the result of the call when e is raised inside the try block:
\* the first matching clause's text, or the exception leaves the handler
OnException(e) ==
    IF \E i \in 1..Len(ExceptClauses) : IsSubclass(e.cls, ExceptClauses[i])
    THEN LET k == CHOOSE i \in 1..Len(ExceptClauses) :
                      /\ IsSubclass(e.cls, ExceptClauses[i])
                      /\ \A j \in 1..(i-1) : ~IsSubclass(e.cls, ExceptClauses[j])
         IN [raised |-> FALSE, text |-> ErrorText(ExceptClauses[k], e)]
    ELSE [raised |-> TRUE, text |-> <<>>]

SuccessText(tl, cl) ==
    <<"Email sent successfully to ">> \o Join(tl, <<",", " ">>)
        \o (IF cl # <<>>
            THEN <<" (CC: ">> \o Join(cl, <<",", " ">>) \o <<")">>
            ELSE <<>>)

\* ------------------------------------------------------------------------
\* send_email_smtp and save_to_sent_folder: the decisions of each step
\* ------------------------------------------------------------------------
\* msg.as_string(): headers in insertion order, Cc only when cc_list is
\* non-empty, Date from formatdate() at the time of the call
Serialize(c, tl, cl, subject, body, clock) ==
    <<"Content-Type: multipart/mixed", "\n", "MIME-Version: 1.0", "\n">>
        \o <<"From: ", c.username[1], "\n">>
        \o <<"To: ">> \o Join(tl, <<",", " ">>) \o <<"\n">>
        \o (IF cl # <<>> THEN <<"Cc: ">> \o Join(cl, <<",", " ">>) \o <<"\n">> ELSE <<>>)
        \o <<"Subject: ">> \o subject \o <<"\n">>
        \o <<"Date: ", ToString(clock), "\n", "\n">>
        \o body

\* str.encode("utf-8") of ASCII text: one byte string per chunk
Utf8Encode(s) == [i \in 1..Len(s) |-> <<"bytes", s[i]>>]

\* variant: the subject check is missing
SubjectNeverRejected(subject) == FALSE

\* arguments.get("subject", "") fails the check `if not subject`
SubjectRejected(subject) == subject = <<>>

\* except smtplib.SMTPException around server.quit()
QuitSuppressed(e) == e = NoExc \/ IsSubclass(e.cls, "SMTPException")

\* except Exception around imap.logout()
LogoutSuppressed(e) == e = NoExc \/ IsSubclass(e.cls, "Exception")

\* variant: except imaplib.IMAP4.error only
ArchiveCaughtImapOnly(e) == IsSubclass(e.cls, "IMAP4.error")

\* except Exception around save_to_sent_folder(config, msg_string)
ArchiveCaught(e) == IsSubclass(e.cls, "Exception")

\* variant: the save_to_sent flag is not consulted
SaveToSentAlways(c) == TRUE

\* config.get("save_to_sent", True)
SaveToSentEnabled(c) == Get(c.save_to_sent, TRUE)

\* config.get("imap_host", config["smtp_host"])
ImapHostOf(c) == Get(c.imap_host, c.smtp_host[1])

\* variant: the store port falls back to the submission port
ImapPortFromSmtp(c) == Get(c.imap_port, c.smtp_port[1])

\* config.get("imap_port", 993)
ImapPortOf(c) == Get(c.imap_port, DefaultImapPort)

\* variant: the message is serialized again for the archival step
ArchivePayloadRebuilt(c, tl, cl, subject, body, clock, msg) ==
    Utf8Encode(Serialize(c, tl, cl, subject, body, clock))

\* the message save_to_sent_folder hands to imap.append
ArchivePayload(c, tl, cl, subject, body, clock, msg) == Utf8Encode(msg)

\* ------------------------------------------------------------------------
\* Inputs
\* ------------------------------------------------------------------------
Unset ==
    [SMTP_HOST |-> <<>>, SMTP_PORT |-> <<>>, SMTP_USE_TLS |-> <<>>,
     SMTP_USERNAME |-> <<>>, SMTP_PASSWORD |-> <<>>, IMAP_HOST |-> <<>>,
     IMAP_PORT |-> <<>>, SAVE_TO_SENT |-> <<>>, SENT_FOLDER |-> <<>>]

EnvMinimal ==
    [Unset EXCEPT !.SMTP_HOST = <<"smtp.example.org">>,
                  !.SMTP_USERNAME = <<"me@example.org">>,
                  !.SMTP_PASSWORD = <<"secret">>]

Environs ==
    { Unset,
      [Unset EXCEPT !.SMTP_HOST = <<"smtp.example.org">>, !.SMTP_USERNAME = <<"">>],
      EnvMinimal,
      [EnvMinimal EXCEPT !.SMTP_PORT = <<<<"5", "8", "7">>>>,
                         !.SMTP_USE_TLS = <<"TRUE">>,
                         !.IMAP_HOST = <<"imap.example.org">>,
                         !.IMAP_PORT = <<<<"1", "4", "3">>>>,
                         !.SENT_FOLDER = <<"INBOX.Sent">>],
      [EnvMinimal EXCEPT !.SAVE_TO_SENT = <<"false">>],
      [EnvMinimal EXCEPT !.SMTP_PORT = <<<<"a", "b", "c">>>>],
      [EnvMinimal EXCEPT !.IMAP_PORT = <<<<"x">>>>] }

JsonMinimal ==
    [NoConfig EXCEPT !.smtp_host = <<"mail.example.org">>,
                     !.smtp_port = <<465>>,
                     !.smtp_use_tls = <<FALSE>>,
                     !.username = <<"me@example.org">>,
                     !.password = <<"secret">>]

Files ==
    { [state |-> "missing", json |-> NoConfig],
      [state |-> "malformed", json |-> NoConfig],
      [state |-> "ok", json |-> [JsonMinimal EXCEPT !.password = <<>>]],
      [state |-> "ok", json |-> JsonMinimal],
      [state |-> "ok", json |-> [JsonMinimal EXCEPT !.smtp_port = <<587>>,
                                                     !.smtp_use_tls = <<TRUE>>,
                                                     !.imap_host = <<"imap.example.org">>,
                                                     !.imap_port = <<143>>,
                                                     !.save_to_sent = <<TRUE>>]],
      [state |-> "ok", json |-> [JsonMinimal EXCEPT !.save_to_sent = <<FALSE>>]] }

ToInputs ==
    { <<>>,
      <<" ", ",", " ">>,
      <<"a", "@", "x", ".", "c">>,
      <<"a", "@", "x", ".", "c", ",", " ", "b", "@", "x", ".", "c", ",">>,
      <<"a", "@", "x", ".", "c", ",", "b", ".", ".", "d", "@", "x", ".", "c", ",", "x">>,
      <<"a", "@", "-", "x", ".", "c">> }

CcInputs ==
    { <<>>,
      <<<<>>>>,
      <<<<"c", "@", "x", ".", "c">>>>,
      <<<<"c", "@", "x", ".", "c", ",", "d", "@", "x">>>> }

SubjectInputs == { <<>>, <<" ">>, <<"S">> }

Body == <<"B">>

\* outcomes of the library calls: NoExc or the exception raised
SmtpConnectOutcomes ==
    { NoExc,
      Exc("ConnectionRefusedError", <<"[Errno 111] Connection refused">>),
      Exc("gaierror", <<"[Errno -2] Name or service not known">>),
      Exc("TimeoutError", <<"timed out">>),
      Exc("SMTPConnectError", <<"(554, b'No SMTP service here')">>),
      Exc("SMTPServerDisconnected", <<"Connection unexpectedly closed">>),
      Exc("UnicodeError", <<"encoding with 'idna' codec failed">>) }

StartTlsOutcomes ==
    { NoExc,
      Exc("SMTPNotSupportedError", <<"STARTTLS extension not supported by server.">>),
      Exc("SSLError", <<"CERTIFICATE_VERIFY_FAILED">>) }

LoginOutcomes ==
    { NoExc,
      Exc("SMTPAuthenticationError", <<"(535, b'Authentication failed')">>),
      Exc("SMTPNotSupportedError", <<"SMTP AUTH extension not supported by server.">>),
      Exc("UnicodeEncodeError", <<"'ascii' codec can't encode character">>) }

SendmailOutcomes ==
    { NoExc,
      Exc("SMTPRecipientsRefused", <<"{'a@x.c': (550, b'User unknown')}">>),
      Exc("SMTPServerDisconnected", <<"Connection unexpectedly closed">>) }

QuitOutcomes ==
    { NoExc,
      Exc("SMTPServerDisconnected", <<"Connection unexpectedly closed">>),
      Exc("OSError", <<"[Errno 5] Input/output error">>) }

ImapConnectOutcomes ==
    { NoExc,
      Exc("ConnectionRefusedError", <<"[Errno 111] Connection refused">>),
      Exc("SSLError", <<"WRONG_VERSION_NUMBER">>) }

ImapLoginOutcomes ==
    { NoExc, Exc("IMAP4.error", <<"b'[AUTHENTICATIONFAILED] Authentication failed.'">>) }

\* imap.append returns the server's NO without raising
AppendOutcomes ==
    { NoExc,
      [cls |-> "NO", arg |-> <<"[TRYCREATE] Mailbox doesn't exist">>],
      Exc("IMAP4.error", <<"APPEND command error: BAD">>),
      Exc("IMAP4.abort", <<"socket error: EOF">>) }

LogoutOutcomes ==
    { NoExc,
      Exc("IMAP4.abort", <<"socket error: EOF">>),
      Exc("OSError", <<"[Errno 9] Bad file descriptor">>) }

\* ------------------------------------------------------------------------
\* State
\* ------------------------------------------------------------------------
MaxClock == 1

VARIABLES
    environ,     \* os.environ of the server process
    file,        \* config.json next to the package
    arguments,   \* the arguments of the call being served
    pc,          \* where the call is
    config,      \* the dictionary load_config returned
    to_list,
    cc_list,
    msg_string,  \* msg.as_string()
    smtp_exc,    \* the exception in flight through the finally of send_email_smtp
    imap_exc,    \* the exception in flight through the finally of save_to_sent_folder
    log,         \* the library calls made during the call, in order
    warnings,    \* logger.warning calls during the call
    result,      \* what handle_send_email returned
    now          \* wall clock

vars ==
    <<environ, file, arguments, pc, config, to_list, cc_list, msg_string,
      smtp_exc, imap_exc, log, warnings, result, now>>

NoArguments == [to |-> <<>>, cc |-> <<>>, subject |-> <<>>, body |-> <<>>]

Event(op, o, host, port, data) ==
    [op |-> op, exc |-> o, host |-> host, port |-> port, data |-> data, at |-> now]

Init ==
    /\ environ \in Environs
    /\ file \in Files
    /\ (EnvTruthy(environ.SMTP_HOST) /\ EnvTruthy(environ.SMTP_USERNAME)
            => file.state = "missing")
    /\ arguments = NoArguments
    /\ pc = "idle"
    /\ config = NoConfig
    /\ to_list = <<>>
    /\ cc_list = <<>>
    /\ msg_string = <<>>
    /\ smtp_exc = NoExc
    /\ imap_exc = NoExc
    /\ log = <<>>
    /\ warnings = 0
    /\ result = NoResult
    /\ now = 0

\* the call returns r
Return(r) ==
    /\ result' = r
    /\ pc' = "done"

\* call_tool("send_email", arguments): a new call enters handle_send_email
call_tool ==
    /\ pc \in {"idle", "done"}
    /\ \E t \in ToInputs, c \in CcInputs, s \in SubjectInputs :
          arguments' = [to |-> t, cc |-> c, subject |-> s, body |-> Body]
    /\ now' \in 0..MaxClock
    /\ pc' = "load_config"
    /\ config' = NoConfig
    /\ to_list' = <<>>
    /\ cc_list' = <<>>
    /\ msg_string' = <<>>
    /\ smtp_exc' = NoExc
    /\ imap_exc' = NoExc
    /\ log' = <<>>
    /\ warnings' = 0
    /\ result' = NoResult
    /\ UNCHANGED <<environ, file>>

\* handle_send_email, line 78
LoadConfig ==
    /\ pc = "load_config"
    /\ LET r == load_config(environ, file)
       IN IF r.exc # NoExc
          THEN Return(OnException(r.exc)) /\ UNCHANGED config
          ELSE config' = r.config /\ pc' = "validate" /\ UNCHANGED result
    /\ UNCHANGED <<environ, file, arguments, to_list, cc_list, msg_string,
                   smtp_exc, imap_exc, log, warnings, now>>

\* handle_send_email, lines 81-98
Validate ==
    /\ pc = "validate"
    /\ LET tl == parse_email_list(arguments.to)
           cl == IF arguments.cc # <<>> /\ arguments.cc[1] # <<>>
                 THEN parse_email_list(arguments.cc[1])
                 ELSE <<>>
           vt == validate_emails(tl)
           vc == IF cl # <<>> THEN validate_emails(cl) ELSE NoExc
       IN /\ to_list' = tl
          /\ cc_list' = cl
          /\ IF tl = <<>>
             THEN Return([raised |-> FALSE,
                          text |-> <<"Error: ", "No valid recipients in 'to' field">>])
             ELSE IF vt # NoExc THEN Return(OnException(vt))
             ELSE IF vc # NoExc THEN Return(OnException(vc))
             ELSE IF SubjectRejected(arguments.subject)
             THEN Return([raised |-> FALSE,
                          text |-> <<"Error: ", "Subject cannot be empty">>])
             ELSE pc' = "send_email_smtp" /\ UNCHANGED result
    /\ UNCHANGED <<environ, file, arguments, config, msg_string,
                   smtp_exc, imap_exc, log, warnings, now>>

\* send_email_smtp, lines 198-213: build and serialize the message
BuildMessage ==
    /\ pc = "send_email_smtp"
    /\ msg_string' = Serialize(config, to_list, cc_list, arguments.subject,
                               arguments.body, now)
    /\ pc' = "smtp_connect"
    /\ UNCHANGED <<environ, file, arguments, config, to_list, cc_list,
                   smtp_exc, imap_exc, log, warnings, result, now>>

\* send_email_smtp, lines 217-229: smtplib.SMTP(...) or smtplib.SMTP_SSL(...)
SmtpConnect ==
    /\ pc = "smtp_connect"
    /\ \E o \in SmtpConnectOutcomes :
          /\ log' = Append(log, Event(IF config.smtp_use_tls[1] THEN "SMTP" ELSE "SMTP_SSL",
                                      o, config.smtp_host[1], config.smtp_port[1], <<>>))
          /\ IF o # NoExc
             THEN Return(OnException(o))        \* server is None: no quit
             ELSE /\ pc' = IF config.smtp_use_tls[1] THEN "smtp_starttls" ELSE "smtp_login"
                  /\ UNCHANGED result
    /\ now' = now + 1
    /\ UNCHANGED <<environ, file, arguments, config, to_list, cc_list, msg_string,
                   smtp_exc, imap_exc, warnings>>

\* send_email_smtp, lines 221-223: ehlo, starttls, ehlo
SmtpStartTls ==
    /\ pc = "smtp_starttls"
    /\ \E o \in StartTlsOutcomes :
          /\ log' = IF o = NoExc
                    THEN log \o <<Event("ehlo", NoExc, "", 0, <<>>),
                                  Event("starttls", NoExc, "", 0, <<>>),
                                  Event("ehlo", NoExc, "", 0, <<>>)>>
                    ELSE log \o <<Event("ehlo", NoExc, "", 0, <<>>),
                                  Event("starttls", o, "", 0, <<>>)>>
          /\ smtp_exc' = o
          /\ pc' = IF o = NoExc THEN "smtp_login" ELSE "smtp_quit"
    /\ now' = now + 1
    /\ UNCHANGED <<environ, file, arguments, config, to_list, cc_list, msg_string,
                   imap_exc, warnings, result>>

\* send_email_smtp, line 231
SmtpLogin ==
    /\ pc = "smtp_login"
    /\ \E o \in LoginOutcomes :
          /\ log' = Append(log, Event("login", o, "", 0, <<>>))
          /\ smtp_exc' = o
          /\ pc' = IF o = NoExc THEN "smtp_sendmail" ELSE "smtp_quit"
    /\ now' = now + 1
    /\ UNCHANGED <<environ, file, arguments, config, to_list, cc_list, msg_string,
                   imap_exc, warnings, result>>

\* send_email_smtp, lines 232-233
SmtpSendmail ==
    /\ pc = "smtp_sendmail"
    /\ \E o \in SendmailOutcomes :
          /\ log' = Append(log, Event("sendmail", o, "", 0, msg_string))
          /\ smtp_exc' = o
          /\ pc' = "smtp_quit"
    /\ now' = now + 1
    /\ UNCHANGED <<environ, file, arguments, config, to_list, cc_list, msg_string,
                   imap_exc, warnings, result>>

\* send_email_smtp, lines 235-243: the finally block, then the exception in
\* flight is re-raised or the function goes on to the archival decision
SmtpQuit ==
    /\ pc = "smtp_quit"
    /\ \E o \in QuitOutcomes :
          /\ log' = Append(log, Event("quit", o, "", 0, <<>>))
          /\ IF ~QuitSuppressed(o) THEN Return(OnException(o))
             ELSE IF smtp_exc # NoExc THEN Return(OnException(smtp_exc))
             ELSE IF SaveToSentEnabled(config)
             THEN pc' = "imap_connect" /\ UNCHANGED result
             ELSE Return([raised |-> FALSE, text |-> SuccessText(to_list, cc_list)])
    /\ now' = now + 1
    /\ UNCHANGED <<environ, file, arguments, config, to_list, cc_list, msg_string,
                   smtp_exc, imap_exc, warnings>>

\* what send_email_smtp and its caller do once save_to_sent_folder is over:
\* e is the exception it raised, or NoExc
AfterArchive(e) ==
    IF e = NoExc
    THEN /\ Return([raised |-> FALSE, text |-> SuccessText(to_list, cc_list)])
         /\ UNCHANGED warnings
    ELSE IF ArchiveCaught(e)
    THEN /\ Return([raised |-> FALSE, text |-> SuccessText(to_list, cc_list)])
         /\ warnings' = warnings + 1
    ELSE /\ Return(OnException(e))
         /\ UNCHANGED warnings

\* save_to_sent_folder, lines 147-156: imaplib.IMAP4_SSL(imap_host, imap_port)
ImapConnect ==
    /\ pc = "imap_connect"
    /\ \E o \in ImapConnectOutcomes :
          /\ log' = Append(log, Event("IMAP4_SSL", o, ImapHostOf(config),
                                      ImapPortOf(config), <<>>))
          /\ IF o # NoExc
             THEN AfterArchive(o)                \* imap is None: no logout
             ELSE pc' = "imap_login" /\ UNCHANGED <<result, warnings>>
    /\ now' = now + 1
    /\ UNCHANGED <<environ, file, arguments, config, to_list, cc_list, msg_string,
                   smtp_exc, imap_exc>>

\* save_to_sent_folder, line 157
ImapLogin ==
    /\ pc = "imap_login"
    /\ \E o \in ImapLoginOutcomes :
          /\ log' = Append(log, Event("imap_login", o, "", 0, <<>>))
          /\ imap_exc' = o
          /\ pc' = IF o = NoExc THEN "imap_append" ELSE "imap_logout"
    /\ now' = now + 1
    /\ UNCHANGED <<environ, file, arguments, config, to_list, cc_list, msg_string,
                   smtp_exc, warnings, result>>

\* save_to_sent_folder, lines 161-167
ImapAppend ==
    /\ pc = "imap_append"
    /\ \E o \in AppendOutcomes :
          /\ log' = Append(log, Event("append", o, Get(config.sent_folder, "Sent"), 0,
                                      ArchivePayload(config, to_list, cc_list,
                                                     arguments.subject, arguments.body,
                                                     now, msg_string)))
          /\ imap_exc' = IF o.cls = "NO" THEN NoExc ELSE o
          /\ pc' = "imap_logout"
    /\ now' = now + 1
    /\ UNCHANGED <<environ, file, arguments, config, to_list, cc_list, msg_string,
                   smtp_exc, warnings, result>>

\* save_to_sent_folder, lines 169-174, then send_email_smtp lines 246-248
ImapLogout ==
    /\ pc = "imap_logout"
    /\ \E o \in LogoutOutcomes :
          /\ log' = Append(log, Event("logout", o, "", 0, <<>>))
          /\ IF ~LogoutSuppressed(o) THEN AfterArchive(o) ELSE AfterArchive(imap_exc)
    /\ now' = now + 1
    /\ UNCHANGED <<environ, file, arguments, config, to_list, cc_list, msg_string,
                   smtp_exc, imap_exc>>

Next ==
    \/ call_tool
    \/ LoadConfig
    \/ Validate
    \/ BuildMessage
    \/ SmtpConnect
    \/ SmtpStartTls
    \/ SmtpLogin
    \/ SmtpSendmail
    \/ SmtpQuit
    \/ ImapConnect
    \/ ImapLogin
    \/ ImapAppend
    \/ ImapLogout

Spec == Init /\ [][Next]_vars

\* ------------------------------------------------------------------------
\* Observations used by the properties
\* ------------------------------------------------------------------------
Done == pc = "done"

SmtpOpenOps == {"SMTP", "SMTP_SSL"}

SubmissionOps == SmtpOpenOps \cup {"ehlo", "starttls", "login", "sendmail", "quit"}

ArchivalOps == {"IMAP4_SSL", "imap_login", "append", "logout"}

Happened(ops) == \E i \in 1..Len(log) : log[i].op \in ops

Succeeded(ops) == \E i \in 1..Len(log) : log[i].op \in ops /\ log[i].exc = NoExc

Failed(ops) == \E i \in 1..Len(log) : log[i].op \in ops /\ log[i].exc # NoExc

Raised(ops) == \E i \in 1..Len(log) : log[i].op \in ops /\ log[i].exc.cls \notin {"none", "NO"}

IsErrorText == result.text # <<>> /\ result.text[1] = "Error: "

IsSuccessText == result.text = SuccessText(to_list, cc_list)

ErrorIs(chunk) == Len(result.text) >= 2 /\ result.text[1] = "Error: " /\ result.text[2] = chunk

\* open, optional upgrade, login, sendmail and quit all succeeded
SubmissionSucceeded ==
    /\ Succeeded(SmtpOpenOps)
    /\ Succeeded({"login"})
    /\ Succeeded({"sendmail"})
    /\ Succeeded({"quit"})
    /\ ~Failed(SubmissionOps)

\* the configuration source load_config reads
EnvForm == EnvTruthy(environ.SMTP_HOST) /\ EnvTruthy(environ.SMTP_USERNAME)

ConfigLoadable == load_config(environ, file).exc = NoExc

AllRecipients ==
    parse_email_list(arguments.to)
        \o (IF arguments.cc # <<>> THEN parse_email_list(arguments.cc[1]) ELSE <<>>)

RecipientsValid ==
    /\ parse_email_list(arguments.to) # <<>>
    /\ \A i \in 1..Len(AllRecipients) : is_valid_email(AllRecipients[i])

SendPcs ==
    {"send_email_smtp", "smtp_connect", "smtp_starttls", "smtp_login", "smtp_sendmail",
     "smtp_quit", "imap_connect", "imap_login", "imap_append", "imap_logout"}

SendInvoked == pc \in SendPcs \/ msg_string # <<>>

\* ------------------------------------------------------------------------
\* Properties
\* ------------------------------------------------------------------------

C2_CloseNeverMasks ==
    (Done /\ Happened({"quit"}))
        => IF smtp_exc = NoExc
           THEN /\ ~result.raised
                /\ IsSuccessText
                /\ (config.save_to_sent # <<FALSE>> => Happened({"IMAP4_SSL"}))
           ELSE result = OnException(smtp_exc)

\* C3: a call whose result is a configuration error, NoRecipients,
\* InvalidAddress or EmptySubject has opened no submission session and no
\* mail-store session and has submitted or appended no message.
C3_NoIoBeforeValidation ==
    (Done /\ ( \/ ErrorIs("config.json not found at ")
               \/ ErrorIs("Invalid JSON in config.json: ")
               \/ (ErrorIs("'") /\ result.text[3] = "Missing required field: ")
               \/ ErrorIs("No valid recipients in 'to' field")
               \/ ErrorIs("Invalid email address - ")
               \/ ErrorIs("Subject cannot be empty") ))
        => /\ ~Succeeded(SmtpOpenOps)
           /\ ~Succeeded({"IMAP4_SSL"})
           /\ ~Happened({"sendmail", "append"})

\* C4: a mail-store session is opened only if save_to_sent is true or unset,
\* the open, (upgrade,) login and sendmail of the submission all succeeded and
\* the quit came before; after a failed submission step none is ever opened.
C4_ArchivalOnlyAfterSubmission ==
    /\ \A i \in 1..Len(log) :
          log[i].op = "IMAP4_SSL" =>
             /\ config.save_to_sent # <<FALSE>>
             /\ \E j \in 1..(i-1) : log[j].op \in SmtpOpenOps /\ log[j].exc = NoExc
             /\ \E j \in 1..(i-1) : log[j].op = "login" /\ log[j].exc = NoExc
             /\ \E j \in 1..(i-1) : log[j].op = "sendmail" /\ log[j].exc = NoExc
             /\ \E j \in 1..(i-1) : log[j].op = "quit"
             /\ (config.smtp_use_tls[1] =>
                    \E j \in 1..(i-1) : log[j].op = "starttls" /\ log[j].exc = NoExc)
             /\ \A j \in (i+1)..Len(log) : log[j].op \notin SubmissionOps
    /\ Failed(SubmissionOps \ {"quit"}) => ~Happened(ArchivalOps)

C4_Witness ==
    /\ Succeeded({"IMAP4_SSL"})
    /\ Happened({"quit"})
    /\ config.save_to_sent = <<>>

\* C5: handle_send_email always returns one text and never raises; when the
\* message was not submitted the text starts with "Error: ".
C5_NeverRaises ==
    Done => /\ ~result.raised
            /\ result.text # <<>>
            /\ (~Succeeded({"sendmail"}) => IsErrorText)

C5_Witness ==
    /\ Done
    /\ Failed(SmtpOpenOps)
    /\ ErrorIs("Unexpected error: ")

\* C6: when the submission session cannot be opened (refused, unresolvable
\* host, timeout) the result is the ConnectionFailed text.
C6_ConnectionFailedText ==
    (Done /\ \E i \in 1..Len(log) :
                 /\ log[i].op \in SmtpOpenOps
                 /\ log[i].exc.cls \in {"ConnectionRefusedError", "gaierror", "TimeoutError"})
        => ErrorIs("Could not connect to SMTP server: ")

\* C7 (as stated): with a loadable config and valid recipients, an empty or
\* whitespace-only subject gives the EmptySubject text and send_email_smtp is
\* never invoked.
C7_AsStated ==
    (ConfigLoadable /\ RecipientsValid /\ Strip(arguments.subject) = <<>>)
        => /\ ~SendInvoked
           /\ (Done => result.text = <<"Error: ", "Subject cannot be empty">>)

\* C7 (amended): with a loadable config and valid recipients, an empty
\* (zero-length) subject gives the EmptySubject text and send_email_smtp is
\* never invoked.
C7_EmptySubject ==
    (ConfigLoadable /\ RecipientsValid /\ arguments.subject = <<>>)
        => /\ ~SendInvoked
           /\ (Done => result.text = <<"Error: ", "Subject cannot be empty">>)

C7_Witness ==
    /\ Done
    /\ ConfigLoadable
    /\ RecipientsValid
    /\ arguments.subject = <<>>
    /\ result.text = <<"Error: ", "Subject cannot be empty">>

\* the store-side settings as the configuration source gives them
ImapHostUnset == IF EnvForm THEN environ.IMAP_HOST = <<>> ELSE file.json.imap_host = <<>>

ImapPortUnset == IF EnvForm THEN environ.IMAP_PORT = <<>> ELSE file.json.imap_port = <<>>

\* C8 (as stated): with the store-side host or port unset, the archival
\* session is opened to the submission host and the submission port.
C8_AsStated ==
    \A i \in 1..Len(log) :
        log[i].op = "IMAP4_SSL" =>
            /\ (ImapHostUnset => log[i].host = config.smtp_host[1])
            /\ (ImapPortUnset => log[i].port = config.smtp_port[1])

\* C8 (amended): with the store-side host unset the archival session is
\* opened to the submission host; with the store-side port unset it is
\* opened to port 993, whatever the submission port is.
C8_ImapDefaults ==
    \A i \in 1..Len(log) :
        log[i].op = "IMAP4_SSL" =>
            /\ (ImapHostUnset => log[i].host = config.smtp_host[1])
            /\ (ImapPortUnset => log[i].port = 993)

C8_Witness ==
    /\ ImapHostUnset
    /\ ImapPortUnset
    /\ ~EnvForm
    /\ \E i \in 1..Len(log) :
          /\ log[i].op = "IMAP4_SSL"
          /\ log[i].host = "mail.example.org"
          /\ log[i].port = 993
          /\ config.smtp_port[1] # 993

\* C9: the message handed to imap.append is the UTF-8 encoding of exactly the
\* string handed to server.sendmail, which is the string serialized before
\* the submission session was opened.
C9_SameMessage ==
    \A i \in 1..Len(log) : \A j \in 1..Len(log) :
        (log[i].op = "sendmail" /\ log[j].op = "append")
            => /\ log[j].data = Utf8Encode(log[i].data)
               /\ log[i].data = msg_string
               /\ \A k \in 1..Len(log) : log[k].op \in SmtpOpenOps => k < i

C9_Witness ==
    /\ Succeeded({"sendmail"})
    /\ Succeeded({"append"})
    /\ cc_list # <<>>

\* C10: the "Invalid email address - " text is returned only when some
\* address of the to-list or cc-list is invalid, and it names the first such
\* address, to-list before cc-list.
C10_InvalidAddressOnlyFromValidation ==
    (Done /\ ErrorIs("Invalid email address - "))
        => /\ \E i \in 1..Len(AllRecipients) : ~is_valid_email(AllRecipients[i])
           /\ result.text = <<"Error: ", "Invalid email address - ">>
                                \o validate_emails(AllRecipients).arg

====
